---- MODULE Spec2Model ----
(***************************************************************************)
(* Model of src/app.py, the "Rutificador Proxy": a lenient normaliser of   *)
(* RUT identifiers, a two-tier fetch (requests, then a headless browser),  *)
(* a regex extractor of the first table row and a positional mapper.       *)
(*                                                                         *)
(* A Python string is a sequence of one-character strings.  An HTML        *)
(* document is a sequence of tokens: a token is a whole tag ("<tr>",       *)
(* "</td>", "<i>") or one character of text.                               *)
(***************************************************************************)
EXTENDS Integers, Sequences, FiniteSets, TLC

VARIABLES
    \* ---- format_rut_lenient called on its own
    raw,          \* the argument of format_rut_lenient
    formatted,    \* what the call returned
    again,        \* what a second call, on the first result, returned
    npc,          \* "idle" | "input" | "formatted" | "renormalized"
    \* ---- extract_first_tr_values called on its own
    html,         \* the argument of extract_first_tr_values
    values,       \* what the call returned
    xpc,          \* "idle" | "input" | "extracted"
    \* ---- map_values called on its own
    row,          \* the argument of map_values
    record,       \* what the call returned
    mpc,          \* "idle" | "input" | "mapped"
    \* ---- one request to GET /rut/{rut} or GET /rut/{rut}/raw
    endpoint,     \* "idle" | "rut" | "raw"
    rut,          \* the path parameter
    inspect,      \* the query parameter of GET /rut/{rut}
    pc,           \* where the handler is
    url,          \* the formatted identifier the URL is built from (line 141)
    direct,       \* the outcome of fetch_via_requests
    page,         \* the HTML that fetch_via_playwright read
    driver,       \* the Playwright driver: "none" | "running" | "stopped"
    browser,      \* the Chromium instance: "none" | "open" | "terminated"
    exc,          \* the exception fetch_via_playwright is raising, or "none"
    directCalls,  \* calls of fetch_via_requests made by the request
    browserCalls, \* calls of fetch_via_playwright made by the request
    response      \* what the request answered

nvars == <<raw, formatted, again, npc>>
xvars == <<html, values, xpc>>
mvars == <<row, record, mpc>>
rvars == <<endpoint, rut, inspect, pc, url, direct, page, driver, browser, exc,
           directCalls, browserCalls, response>>
vars == <<raw, formatted, again, npc, html, values, xpc, row, record, mpc,
          endpoint, rut, inspect, pc, url, direct, page, driver, browser, exc,
          directCalls, browserCalls, response>>

\* ------------------------------------------------------------------ bounds

\* Longest argument of format_rut_lenient that is enumerated.
MaxRawLen == 5

\* Most fragments an enumerated HTML document is made of.
MaxFrags == 5

\* Longest argument of map_values that is enumerated.
MaxRowLen == 6

\* Most cells in the table row of a page the upstream site answers with.
MaxCells == 5

\* ------------------------------------------------------------ Python values

\* Optional[str]: None, or a string.
None == [isNone |-> TRUE, str |-> <<>>]
Some(s) == [isNone |-> FALSE, str |-> s]

Min(a, b) == IF a < b THEN a ELSE b

\* s[::-1]
Reverse(s) == [i \in 1..Len(s) |-> s[Len(s) + 1 - i]]

\* sep.join(parts)
RECURSIVE Join(_, _)
Join(sep, parts) ==
    IF Len(parts) = 0 THEN <<>>
    ELSE IF Len(parts) = 1 THEN parts[1]
    ELSE parts[1] \o sep \o Join(sep, Tail(parts))

\* All sequences over S of length at most n.
SeqsUpTo(S, n) == UNION {[1..k -> S] : k \in 0..n}

\* ------------------------------------------------------- format_rut_lenient

Digits == {"0", "1", "2", "3", "4", "5", "6", "7", "8", "9"}

\* str.lower() and str.upper() on the characters of the model.
Lower(ch) == IF ch = "K" THEN "k" ELSE ch
Upper(ch) == IF ch = "k" THEN "K" ELSE ch

\* The filter of line 32: ch.isdigit() or ch == "k".
IsRutChar(ch) == ch \in Digits \/ ch = "k"

\* The filter of line 32 without the lower(): an upper-case K is dropped.
FilterRutCaseSensitive(r) == SelectSeq(r, IsRutChar)

\* Line 32: "".join(ch for ch in str(raw).lower() if ch.isdigit() or ch == "k")
FilterRut(r) == SelectSeq([i \in 1..Len(r) |-> Lower(r[i])], IsRutChar)

\* Width of a group of the dotted body (the 3 of lines 37).
ChunkSize == 3

\* Line 37: [rev[i : i + 3] for i in range(0, len(rev), 3)]
Chunks(rev) ==
    [k \in 1..((Len(rev) + ChunkSize - 1) \div ChunkSize) |->
        SubSeq(rev, ChunkSize * (k - 1) + 1, Min(ChunkSize * k, Len(rev)))]

\* Line 38: ".".join(c[::-1] for c in chunks[::-1])
Dotted(body) ==
    LET chunks == Chunks(Reverse(body))
        parts == [k \in 1..Len(chunks) |-> Reverse(chunks[Len(chunks) + 1 - k])]
    IN  Join(<<".">>, parts)

format_rut_lenient(r) ==
    IF Len(r) = 0 THEN None
    ELSE LET s == FilterRut(r) IN
         IF Len(s) < 2 THEN None
         ELSE LET body == SubSeq(s, 1, Len(s) - 1)
                  dv == Upper(s[Len(s)])
              IN  Some(Dotted(body) \o <<"-">> \o <<dv>>)

\* ------------------------------------------------------------------ HTML

TR == "<tr>"
ETR == "</tr>"
TD == "<td>"
ETD == "</td>"
ITAG == "<i>"
NBSP == "nbsp"    \* the character U+00A0
SPACE == " "

\* <[^>]+> (line 108).  TR is what <tr[^>]*> matches and TD what <td[^>]*>
\* matches (lines 51, 52, 98).
IsTag(t) == t \in {TR, ETR, TD, ETD, ITAG}

\* The least element of a non-empty set of integers.
Least(S) == CHOOSE m \in S : \A n \in S : m <= n

\* Line 98: re.search(r"<tr[^>]*>[\s\S]*?<td[^>]*>", html)
ensure_has_tds(h) ==
    \E i \in 1..Len(h) : h[i] = TR /\ \E j \in (i + 1)..Len(h) : h[j] = TD

\* Where <open>(.*?)<close> matches in s at or after position from: the
\* leftmost opening tag that a closing tag follows, up to the first closing
\* tag after it.  start = 0 when there is no match.
NoMatch == [start |-> 0, end |-> 0, group |-> <<>>]
SearchPair(s, from, open, close) ==
    LET starts == {i \in from..Len(s) :
                      s[i] = open /\ \E j \in (i + 1)..Len(s) : s[j] = close}
    IN  IF starts = {} THEN NoMatch
        ELSE LET i == Least(starts)
                 j == Least({k \in (i + 1)..Len(s) : s[k] = close})
             IN  [start |-> i, end |-> j, group |-> SubSeq(s, i + 1, j - 1)]

\* Line 52: TR_RX.search(html)
TR_RX(h) == SearchPair(h, 1, TR, ETR)

\* Line 51, 106: [td.group(1) for td in TD_RX.finditer(s)], from position from.
RECURSIVE TD_RX(_, _)
TD_RX(s, from) ==
    LET m == SearchPair(s, from, TD, ETD)
    IN  IF m.start = 0 THEN <<>> ELSE <<m.group>> \o TD_RX(s, m.end + 1)

\* Line 108: re.sub(r"<[^>]+>", "", txt)
NotTag(t) == ~IsTag(t)
StripTags(txt) == SelectSeq(txt, NotTag)

\* Line 109: clean.replace("\\u00A0", " ")
ReplaceNbsp(txt) == [i \in 1..Len(txt) |-> IF txt[i] = NBSP THEN SPACE ELSE txt[i]]

\* Line 109: re.sub(r"\s+", " ", ...)
RECURSIVE CollapseSpaces(_)
CollapseSpaces(txt) ==
    IF Len(txt) < 2 THEN txt
    ELSE IF txt[1] = SPACE /\ txt[2] = SPACE THEN CollapseSpaces(Tail(txt))
    ELSE <<txt[1]>> \o CollapseSpaces(Tail(txt))

\* Line 109: .strip()
RECURSIVE Strip(_)
Strip(txt) ==
    IF Len(txt) = 0 THEN txt
    ELSE IF txt[1] = SPACE THEN Strip(Tail(txt))
    ELSE IF txt[Len(txt)] = SPACE THEN Strip(SubSeq(txt, 1, Len(txt) - 1))
    ELSE txt

\* Lines 108-109.
Clean(txt) == Strip(CollapseSpaces(ReplaceNbsp(StripTags(txt))))

\* Lines 105-112: the loop over the cells.
RECURSIVE CleanCells(_)
CleanCells(cells) ==
    IF Len(cells) = 0 THEN <<>>
    ELSE LET clean == Clean(cells[1])
         IN  (IF Len(clean) > 0 THEN <<clean>> ELSE <<>>) \o CleanCells(Tail(cells))

\* Lines 100-112 with TD_RX run on the whole document, not on the first row.
ExtractFromWholeDocument(h) ==
    LET m == TR_RX(h)
    IN  IF m.start = 0 THEN <<>> ELSE CleanCells(TD_RX(h, 1))

extract_first_tr_values(h) ==
    LET m == TR_RX(h)
    IN  IF m.start = 0 THEN <<>> ELSE CleanCells(TD_RX(m.group, 1))

\* ----------------------------------------------------------------- map_values

\* Line 119: the length from which a row maps onto the named fields.
NamedFieldCount == 5

\* Lines 120-127: the names bound to values[:5], in order.
NamedFields == <<"nombre", "rut", "genero", "direccion", "comuna">>

\* str(n) for one decimal digit.
DigitText == <<"1", "2", "3", "4", "5", "6", "7", "8", "9">>

\* Line 128: f"campo{i+1}", i counted from 0.
CampoKey(i) == "campo" \o DigitText[i + 1]

\* Line 119 with > for >=.
HasNamedFieldsStrictly(vs) == Len(vs) > NamedFieldCount

\* Line 119: len(values) >= 5
HasNamedFields(vs) == Len(vs) >= NamedFieldCount

map_values(vs) ==
    IF HasNamedFields(vs)
    THEN [k \in {NamedFields[i] : i \in 1..NamedFieldCount} |->
             vs[CHOOSE i \in 1..NamedFieldCount : NamedFields[i] = k]]
    ELSE [k \in {CampoKey(i) : i \in 0..(Len(vs) - 1)} |->
             vs[(CHOOSE i \in 0..(Len(vs) - 1) : CampoKey(i) = k) + 1]]

\* ------------------------------------- extract_first_tr_values, on its own

\* <td>a</td>, and a cell whose text needs every step of the cleaning.
CellA == <<TD, "a", ETD>>
CellB == <<TD, NBSP, "b", SPACE, ITAG, NBSP, "b", ETD>>

\* What the enumerated documents are made of: single tokens and whole cells.
Fragments == {<<TR>>, <<ETR>>, <<TD>>, <<ETD>>, <<"a">>, <<SPACE>>, CellA, CellB}

RECURSIVE Flatten(_)
Flatten(fs) == IF Len(fs) = 0 THEN <<>> ELSE fs[1] \o Flatten(Tail(fs))

\* The documents made of at most n fragments.
HtmlInputs(n) == {Flatten(fs) : fs \in SeqsUpTo(Fragments, n)}

ExtractorInit ==
    /\ html \in HtmlInputs(MaxFrags)
    /\ values = <<>>
    /\ xpc = "input"

\* values = extract_first_tr_values(html)
CallExtract ==
    /\ xpc = "input"
    /\ values' = extract_first_tr_values(html)
    /\ xpc' = "extracted"
    /\ UNCHANGED <<html, nvars, mvars, rvars>>

ExtractorNext == CallExtract

\* ------------------------------------------------- map_values, on its own

\* Cell texts of the enumerated rows.
CellTexts == {<<"a">>, <<"b">>}

MapperInit ==
    /\ row \in SeqsUpTo(CellTexts, MaxRowLen)
    /\ record = <<>>
    /\ mpc = "input"

\* record = map_values(row)
CallMap ==
    /\ mpc = "input"
    /\ record' = map_values(row)
    /\ mpc' = "mapped"
    /\ UNCHANGED <<row, nvars, xvars, rvars>>

MapperNext == CallMap

\* ------------------------------------------ format_rut_lenient, on its own

\* Characters of the enumerated arguments: digits, the check letter in both
\* cases, and the two separators.
RutChars == {"1", "2", "k", "K", ".", "-"}

\* The three spellings of the docstring (lines 27), and their canonical form.
Plain15421741K == <<"1", "5", "4", "2", "1", "7", "4", "1", "K">>
Dashed15421741K == <<"1", "5", "4", "2", "1", "7", "4", "1", "-", "K">>
Canonical15421741K ==
    <<"1", "5", ".", "4", "2", "1", ".", "7", "4", "1", "-", "K">>
DocstringInputs == {Plain15421741K, Dashed15421741K, Canonical15421741K}

\* The arguments of at most n characters, and these with the docstring's.
ShortInputs(n) == SeqsUpTo(RutChars, n)
RawInputs(n) == ShortInputs(n) \cup DocstringInputs

\* One-character edits of an enumerated argument: a character inserted,
\* deleted or replaced.
Inserted(r) ==
    {SubSeq(r, 1, i) \o <<c>> \o SubSeq(r, i + 1, Len(r)) :
        i \in 0..Len(r), c \in RutChars}
Deleted(r) ==
    {SubSeq(r, 1, i - 1) \o SubSeq(r, i + 1, Len(r)) : i \in 1..Len(r)}
Replaced(r) ==
    {[r EXCEPT ![i] = c] : i \in 1..Len(r), c \in RutChars}
Edits(r) == {e \in Inserted(r) \cup Deleted(r) \cup Replaced(r) : Len(e) <= MaxRawLen}

NormalizerIdle == raw = <<>> /\ formatted = None /\ again = None /\ npc = "idle"
ExtractorIdle == html = <<>> /\ values = <<>> /\ xpc = "idle"
MapperIdle == row = <<>> /\ record = <<>> /\ mpc = "idle"

NormalizerInit ==
    /\ raw \in RawInputs(MaxRawLen)
    /\ formatted = None
    /\ again = None
    /\ npc = "input"

\* formatted = format_rut_lenient(raw)
CallFormat ==
    /\ npc = "input"
    /\ formatted' = format_rut_lenient(raw)
    /\ npc' = "formatted"
    /\ UNCHANGED <<raw, again, xvars, mvars, rvars>>

\* The same call on an argument one character away from the last one.
CallFormatRestyled ==
    /\ npc = "formatted"
    /\ Len(raw) <= MaxRawLen
    /\ \E e \in Edits(raw) :
        /\ raw' = e
        /\ formatted' = format_rut_lenient(e)
    /\ UNCHANGED <<again, npc, xvars, mvars, rvars>>

\* again = format_rut_lenient(formatted)
CallFormatAgain ==
    /\ npc = "formatted"
    /\ ~formatted.isNone
    /\ again' = format_rut_lenient(formatted.str)
    /\ npc' = "renormalized"
    /\ UNCHANGED <<raw, formatted, xvars, mvars, rvars>>

NormalizerNext == CallFormat \/ CallFormatRestyled \/ CallFormatAgain


\* ------------------------------------------------------------- the endpoints

\* Line 152, 207: the status that marks the upstream block.
Forbidden == 403

\* Lines 179, 208, 213: html[:1200] and html[:20000].
SnippetChars == 1200
RawChars == 20000
Prefix(h, n) == SubSeq(h, 1, Min(n, Len(h)))

\* The table row of an upstream page, with k cells.
Row(k) ==
    <<TR>> \o Flatten([i \in 1..k |-> IF i % 2 = 1 THEN CellA ELSE CellB]) \o <<ETR>>

\* The pages the upstream site answers with: nothing, a challenge page
\* without a table, an unclosed row, a row whose only cell is blank, and a
\* row of 0, 1, ... cells.
Bodies ==
    {<<>>, <<"a">>, <<TR, TD>>, <<TR, TD, SPACE, ETD, ETR>>}
        \cup {Row(k) : k \in 0..MaxCells}

Statuses == {200, Forbidden, 404}

\* fetch_via_requests raised requests.RequestException, or returned r.
NoOutcome == [kind |-> "none", status |-> 0, body |-> <<>>]
TransportError == [kind |-> "exception", status |-> 0, body |-> <<>>]
DirectOutcomes ==
    {TransportError} \cup
    {[kind |-> "response", status |-> st, body |-> b] : st \in Statuses, b \in Bodies}

RequestRuts == {<<"1">>, <<"1", "-", "9">>, <<"1", "2", "3", "4", "5", "k">>}

NoResponse == [kind |-> "none", status |-> 0, detail |-> "", body |-> <<>>]
HttpError(st, text) == [kind |-> "error", status |-> st, detail |-> text, body |-> <<>>]

\* Lines 139, 200.
InvalidRut == HttpError(400, "RUT invalido")
\* Lines 155, 181, 185.
NoValidColumns == HttpError(400, "No se encontraron columnas <td> validas")
NoRowsInResponse ==
    HttpError(400, "No se encontraron filas <tr> con columnas <td> en la respuesta")
RowWithoutColumns == HttpError(400, "La fila no contiene columnas <td>")
\* An exception that leaves the handler: the server answers 500.
ServerError(what) == HttpError(500, what)

\* Lines 157-163, 188-194.
Payload(vals) ==
    [kind |-> "payload", status |-> 200, detail |-> "",
     body |-> [columnas |-> Len(vals), data |-> map_values(vals), raw |-> vals]]
\* Lines 175-180.
Diagnostic(h) ==
    [kind |-> "diagnostic", status |-> 200,
     detail |-> "No se detectaron <td> incluso con Playwright.",
     body |-> Prefix(h, SnippetChars)]
\* Lines 208, 213.
RawHtml(st, h) ==
    [kind |-> "raw", status |-> 200, detail |-> "",
     body |-> [status |-> st, html |-> Prefix(h, RawChars)]]

RequestIdle ==
    /\ endpoint = "idle"
    /\ rut = <<>>
    /\ inspect = FALSE
    /\ pc = "idle"
    /\ url = None
    /\ direct = NoOutcome
    /\ page = <<>>
    /\ driver = "none"
    /\ browser = "none"
    /\ exc = "none"
    /\ directCalls = 0
    /\ browserCalls = 0
    /\ response = NoResponse

RequestInit ==
    /\ endpoint \in {"rut", "raw"}
    /\ rut \in RequestRuts
    /\ inspect \in (IF endpoint = "rut" THEN BOOLEAN ELSE {FALSE})
    /\ pc = "start"
    /\ url = None
    /\ direct = NoOutcome
    /\ page = <<>>
    /\ driver = "none"
    /\ browser = "none"
    /\ exc = "none"
    /\ directCalls = 0
    /\ browserCalls = 0
    /\ response = NoResponse

\* Lines 138, 199 with the early return missing.
NeverRejects(f) == FALSE

\* Lines 138, 199: if not formatted
Rejects(f) == f.isNone

\* Lines 137-141 and 198-201: both handlers normalize the same way.
Normalize ==
    /\ pc = "start"
    /\ LET f == format_rut_lenient(rut) IN
       IF Rejects(f)
       THEN /\ response' = InvalidRut
            /\ pc' = "done"
            /\ url' = url
       ELSE /\ url' = f
            /\ pc' = "direct"
            /\ response' = response
    /\ UNCHANGED <<endpoint, rut, inspect, direct, page, driver, browser, exc,
                   directCalls, browserCalls, nvars, xvars, mvars>>

\* Line 152 without the status test.
UsableIgnoringStatus(r) == ensure_has_tds(r.body)

\* Line 152 without the markup test.
UsableIgnoringMarkup(r) == r.status # Forbidden

\* Line 152: r.status_code != 403 and ensure_has_tds(html)
DirectIsUsable(r) == r.status # Forbidden /\ ensure_has_tds(r.body)

\* Lines 143-165 of get_rut: the direct fetch and what is done with it.
get_rut_direct ==
    /\ endpoint = "rut"
    /\ pc = "direct"
    /\ \E o \in DirectOutcomes :
        /\ direct' = o
        /\ directCalls' = directCalls + 1
        /\ IF o.kind = "response" /\ DirectIsUsable(o)
           THEN LET vals == extract_first_tr_values(o.body) IN
                /\ response' = IF Len(vals) = 0 THEN NoValidColumns ELSE Payload(vals)
                /\ pc' = "done"
           ELSE /\ pc' = "playwright"
                /\ response' = response
    /\ UNCHANGED <<endpoint, rut, inspect, url, page, driver, browser, exc,
                   browserCalls, nvars, xvars, mvars>>

\* Line 207 without the status test.
RawUsableIgnoringStatus(r) == Len(r.body) > 0

\* Line 207: r.status_code != 403 and html
RawIsUsable(r) == r.status # Forbidden /\ Len(r.body) > 0

\* Lines 203-210 of get_rut_raw.
get_rut_raw_direct ==
    /\ endpoint = "raw"
    /\ pc = "direct"
    /\ \E o \in DirectOutcomes :
        /\ direct' = o
        /\ directCalls' = directCalls + 1
        /\ IF o.kind = "response" /\ RawIsUsable(o)
           THEN /\ response' = RawHtml(o.status, o.body)
                /\ pc' = "done"
           ELSE /\ pc' = "playwright"
                /\ response' = response
    /\ UNCHANGED <<endpoint, rut, inspect, url, page, driver, browser, exc,
                   browserCalls, nvars, xvars, mvars>>

\* ------------------------------------------------------ fetch_via_playwright

\* The call, and lines 62-70: the import succeeds, or RuntimeError leaves
\* the function and the handler.
PlaywrightImport ==
    /\ pc = "playwright"
    /\ browserCalls' = browserCalls + 1
    /\ \/ /\ pc' = "enter"
          /\ UNCHANGED <<exc, response>>
       \/ /\ exc' = "RuntimeError"
          /\ response' = ServerError("Playwright no esta instalado")
          /\ pc' = "done"
    /\ UNCHANGED <<endpoint, rut, inspect, url, direct, page, driver, browser,
                   directCalls, nvars, xvars, mvars>>

\* Line 72: with sync_playwright() as p, entered.
PlaywrightEnter ==
    /\ pc = "enter"
    /\ driver' = "running"
    /\ pc' = "launch"
    /\ UNCHANGED <<endpoint, rut, inspect, url, direct, page, browser, exc,
                   directCalls, browserCalls, response, nvars, xvars, mvars>>

\* A step of the with block raises: control goes to the exit of the block.
Raise(step) ==
    /\ exc' = step
    /\ pc' = "exit"

\* Lines 73-76: p.chromium.launch(...)
BrowserLaunch ==
    /\ pc = "launch"
    /\ \/ /\ browser' = "open"
          /\ pc' = "context"
          /\ exc' = exc
       \/ /\ Raise("launch")
          /\ browser' = browser
    /\ UNCHANGED <<endpoint, rut, inspect, url, direct, page, driver,
                   directCalls, browserCalls, response, nvars, xvars, mvars>>

\* Lines 77-85: browser.new_context(...), ctx.new_page()
BrowserNewPage ==
    /\ pc = "context"
    /\ \/ /\ pc' = "goto"
          /\ exc' = exc
       \/ Raise("new_context")
    /\ UNCHANGED <<endpoint, rut, inspect, url, direct, page, driver, browser,
                   directCalls, browserCalls, response, nvars, xvars, mvars>>

\* Line 86: page.goto(url, ...), which raises on a navigation error or timeout.
PageGoto ==
    /\ pc = "goto"
    /\ \/ /\ pc' = "wait"
          /\ exc' = exc
       \/ Raise("goto")
    /\ UNCHANGED <<endpoint, rut, inspect, url, direct, page, driver, browser,
                   directCalls, browserCalls, response, nvars, xvars, mvars>>

\* Lines 88-92: the dwell, then wait_for_selector, whose timeout is swallowed.
PageWait ==
    /\ pc = "wait"
    /\ pc' = "content"
    /\ UNCHANGED <<endpoint, rut, inspect, url, direct, page, driver, browser, exc,
                   directCalls, browserCalls, response, nvars, xvars, mvars>>

\* Line 93: html = page.content()
PageContent ==
    /\ pc = "content"
    /\ \/ /\ \E h \in Bodies : page' = h
          /\ pc' = "close"
          /\ exc' = exc
       \/ /\ Raise("content")
          /\ page' = page
    /\ UNCHANGED <<endpoint, rut, inspect, url, direct, driver, browser,
                   directCalls, browserCalls, response, nvars, xvars, mvars>>

\* Line 94: browser.close()
BrowserClose ==
    /\ pc = "close"
    /\ browser' = "terminated"
    /\ pc' = "exit"
    /\ UNCHANGED <<endpoint, rut, inspect, url, direct, page, driver, exc,
                   directCalls, browserCalls, response, nvars, xvars, mvars>>

\* A driver stopped without the browsers it launched being closed.
LeftByStop(b) == b

\* Line 72, the exit of the with block: the Playwright driver is stopped, and
\* a browser it launched that is still open ends with it.
AfterStop(b) == IF b = "open" THEN "terminated" ELSE b

\* Line 72, the exit of the with block, on every path out of it; then line 95
\* (return html) or the exception leaves the function and the handler.
PlaywrightExit ==
    /\ pc = "exit"
    /\ driver' = "stopped"
    /\ browser' = AfterStop(browser)
    /\ IF exc = "none"
       THEN /\ pc' = "fetched"
            /\ response' = response
       ELSE /\ pc' = "done"
            /\ response' = ServerError(exc)
    /\ UNCHANGED <<endpoint, rut, inspect, url, direct, page, exc,
                   directCalls, browserCalls, nvars, xvars, mvars>>

\* Lines 170-194 of get_rut: what is done with the browser's HTML.
get_rut_fetched ==
    /\ endpoint = "rut"
    /\ pc = "fetched"
    /\ response' =
         IF ~ensure_has_tds(page)
         THEN (IF inspect THEN Diagnostic(page) ELSE NoRowsInResponse)
         ELSE LET vals == extract_first_tr_values(page) IN
              IF Len(vals) = 0 THEN RowWithoutColumns ELSE Payload(vals)
    /\ pc' = "done"
    /\ UNCHANGED <<endpoint, rut, inspect, url, direct, page, driver, browser, exc,
                   directCalls, browserCalls, nvars, xvars, mvars>>

\* Line 213 of get_rut_raw.
get_rut_raw_fetched ==
    /\ endpoint = "raw"
    /\ pc = "fetched"
    /\ response' = RawHtml(200, page)
    /\ pc' = "done"
    /\ UNCHANGED <<endpoint, rut, inspect, url, direct, page, driver, browser, exc,
                   directCalls, browserCalls, nvars, xvars, mvars>>

fetch_via_playwright ==
    \/ PlaywrightImport
    \/ PlaywrightEnter
    \/ BrowserLaunch
    \/ BrowserNewPage
    \/ PageGoto
    \/ PageWait
    \/ PageContent
    \/ BrowserClose
    \/ PlaywrightExit

get_rut == get_rut_direct \/ get_rut_fetched
get_rut_raw == get_rut_raw_direct \/ get_rut_raw_fetched

Init == RequestInit /\ NormalizerIdle /\ ExtractorIdle /\ MapperIdle
Next == Normalize \/ get_rut \/ get_rut_raw \/ fetch_via_playwright

\* ----------------------------------------------------------- specifications

\* One request to either endpoint.
Spec == Init /\ [][Next]_vars

\* format_rut_lenient, extract_first_tr_values and map_values on their own.
InitNormalizer == NormalizerInit /\ ExtractorIdle /\ MapperIdle /\ RequestIdle
InitExtractor == ExtractorInit /\ NormalizerIdle /\ MapperIdle /\ RequestIdle
InitMapper == MapperInit /\ NormalizerIdle /\ ExtractorIdle /\ RequestIdle

SpecNormalizer == InitNormalizer /\ [][NormalizerNext]_vars
SpecExtractor == InitExtractor /\ [][ExtractorNext]_vars
SpecMapper == InitMapper /\ [][MapperNext]_vars

\* =================================================================== claims

\* ------------------------------------------------- C5: the canonical pattern

\* str matches \d{1,3}(\.\d{3})*-[0-9K]: the last character is a digit or K,
\* a "-" precedes it, and in the body before the "-" every fourth character
\* counted from the right is a "." and every other one a digit, the first
\* character being a digit.
MatchesCanonicalPattern(str) ==
    LET n == Len(str)
        b == n - 2
    IN  /\ n >= 3
        /\ str[n] \in Digits \cup {"K"}
        /\ str[n - 1] = "-"
        /\ b % 4 # 0
        /\ \A i \in 1..b :
              IF (b + 1 - i) % 4 = 0 THEN str[i] = "." ELSE str[i] \in Digits

\* C5 as stated: every string format_rut_lenient returns matches the
\* canonical pattern \d{1,3}(\.\d{3})*-[0-9K].
C5_AlwaysCanonicalPattern ==
    (npc \in {"formatted", "renormalized"} /\ ~formatted.isNone)
        => MatchesCanonicalPattern(formatted.str)

\* ------------------------------------------- C6: separator-style insensitive

\* The digit and k/K characters of an argument, case ignored and every other
\* character ignored.
IsSignificant(ch) == ch \in Digits \cup {"k", "K"}
Significant(r) ==
    LET kept == SelectSeq(r, IsSignificant)
    IN  [i \in 1..Len(kept) |-> IF kept[i] = "k" THEN "K" ELSE kept[i]]

\* C6: two arguments with the same significant characters, at least 2 of them,
\* yield the same canonical string (stated over every pair of arguments one
\* character apart, which connect every pair of enumerated arguments); the
\* three spellings of 15421741K all yield "15.421.741-K"; and normalizing a
\* result again yields the same string.
C6_SeparatorStyleInsensitive ==
    /\ [][(/\ npc = "formatted"
           /\ npc' = "formatted"
           /\ Significant(raw') = Significant(raw)
           /\ Len(Significant(raw)) >= 2) => formatted' = formatted]_vars
    /\ []((npc \in {"formatted", "renormalized"} /\ raw \in DocstringInputs)
            => formatted = Some(Canonical15421741K))
    /\ [](npc = "renormalized" => again = formatted)

\* The plain spelling was normalized to "15.421.741-K" and normalized again.
C6_Witness ==
    /\ npc = "renormalized"
    /\ raw = Plain15421741K
    /\ formatted = Some(Canonical15421741K)
    /\ again = formatted

\* ------------------------------------------ C10: the cells of the first row

\* The first row region: from the first opening row tag that a closing row
\* tag follows, to the first closing row tag after it.
HasRowRegion(h) ==
    \E i \in 1..Len(h) : h[i] = TR /\ \E j \in (i + 1)..Len(h) : h[j] = ETR
RowOpen(h) ==
    Least({i \in 1..Len(h) : h[i] = TR /\ \E j \in (i + 1)..Len(h) : h[j] = ETR})
RowClose(h) == Least({j \in (RowOpen(h) + 1)..Len(h) : h[j] = ETR})
RowInside(h) == (RowOpen(h) + 1)..(RowClose(h) - 1)

\* The cells of the first row region: an opening cell tag inside the region
\* that a closing cell tag inside the region follows, and that is not itself
\* inside a cell (every opening cell tag before it is closed before it).
CellOpens(h) ==
    {s \in RowInside(h) :
        /\ h[s] = TD
        /\ \E e \in RowInside(h) : e > s /\ h[e] = ETD
        /\ \A t \in RowInside(h) :
              (t < s /\ h[t] = TD) => \E e \in (t + 1)..(s - 1) : h[e] = ETD}
CellClose(h, s) == Least({e \in RowInside(h) : e > s /\ h[e] = ETD})

IsBlank(t) == t \in {SPACE, NBSP}

\* The text of a cell: its characters that are not markup, in order, with a
\* single space in the place of every run of blanks between two words and
\* nothing in the place of the blanks before the first and after the last.
CellText(h, s) ==
    LET inside == {i \in (s + 1)..(CellClose(h, s) - 1) : ~IsTag(h[i])}
        words == {i \in inside : ~IsBlank(h[i])}
        kept == words \cup
                {i \in inside :
                    /\ IsBlank(h[i])
                    /\ \E w \in words : w > i
                    /\ \E w \in words :
                          /\ w < i
                          /\ \A k \in inside : (w < k /\ k < i) => ~IsBlank(h[k])}
    IN  [i \in kept |-> IF IsBlank(h[i]) THEN SPACE ELSE h[i]]

\* The values of f on the set S of indices, by increasing index.
RECURSIVE InOrder(_, _)
InOrder(S, f) ==
    IF S = {} THEN <<>> ELSE <<f[Least(S)]>> \o InOrder(S \ {Least(S)}, f)

TextOf(h, s) == LET t == CellText(h, s) IN InOrder(DOMAIN t, t)

FirstRowTexts(h) ==
    IF ~HasRowRegion(h) THEN <<>>
    ELSE LET texts == [s \in CellOpens(h) |-> TextOf(h, s)]
         IN  InOrder({s \in CellOpens(h) : Len(texts[s]) > 0}, texts)

\* C10: extract_first_tr_values returns, in document order, the cleaned
\* non-empty texts of the cells of the first row region, and the empty
\* sequence when the document has no row region.
C10_FirstRowCells == xpc = "extracted" => values = FirstRowTexts(html)

\* A first row whose two cells come out in order and cleaned; the cell that
\* follows the row region does not appear.
C10_Witness ==
    /\ xpc = "extracted"
    /\ html = <<TR>> \o CellA \o CellB \o <<ETR>> \o CellA
    /\ values = <<<<"a">>, <<"b", SPACE, "b">>>>

\* ------------------------------------------------ C1: when the browser runs

\* The body contains an opening row tag followed, anywhere later, by an
\* opening cell tag.
HasRowCellSequence(b) ==
    \E i \in 1..Len(b) : \E j \in 1..Len(b) : i < j /\ b[i] = TR /\ b[j] = TD

\* The direct fetch raised a transport exception, or returned status 403, or
\* returned a body without a <tr>...<td> sequence.
DirectBlocked(o) ==
    \/ o.kind = "exception"
    \/ o.kind = "response" /\ (o.status = 403 \/ ~HasRowCellSequence(o.body))

\* C1: in GET /rut/{id}, after a successful normalization, the browser
\* fetcher is invoked if and only if the direct fetch raised a transport
\* exception, returned 403, or returned a body without a <tr>...<td>
\* sequence: it is never invoked before or without one of these, and a
\* request that has ended after one of these has invoked it.
C1_BrowserIffDirectBlocked ==
    (endpoint = "rut" /\ ~url.isNone) =>
        /\ browserCalls >= 1 => DirectBlocked(direct)
        /\ (pc = "done" /\ DirectBlocked(direct)) => browserCalls = 1

\* A non-403 answer with table markup whose first row has no non-empty cell:
\* the request ended with no browser fetch.
C1_Witness ==
    /\ endpoint = "rut"
    /\ pc = "done"
    /\ direct = [kind |-> "response", status |-> 200, body |-> <<TR, TD, SPACE, ETD, ETR>>]
    /\ browserCalls = 0
    /\ response = NoValidColumns

\* ------------------------------------------- C2: the ExtractionEmpty failure

\* The 400 answered because no row or no non-empty cell was found.
IsExtractionEmpty(r) == r.kind = "error" /\ r.status = 400 /\ r # InvalidRut

\* C2 as stated: whenever the ExtractionEmpty failure is returned, the direct
\* fetch and the browser fetch have both been performed.
C2_EmptyOnlyAfterBothTiers ==
    IsExtractionEmpty(response) => (directCalls = 1 /\ browserCalls = 1)

\* C2 as amended: whenever the ExtractionEmpty failure is returned, the direct
\* fetch has been performed, and either the browser fetch has been performed
\* too, or the direct fetch returned a non-403 status with a <tr>...<td>
\* sequence whose first row region yields no non-empty cell.
C2_EmptyAfterBothTiersOrEmptyDirectRow ==
    IsExtractionEmpty(response) =>
        /\ directCalls = 1
        /\ \/ browserCalls = 1
           \/ /\ direct.kind = "response"
              /\ direct.status # 403
              /\ HasRowCellSequence(direct.body)
              /\ FirstRowTexts(direct.body) = <<>>

\* The failure after both tiers: the direct fetch was blocked and the page the
\* browser read has a row without a non-empty cell.
C2_Witness ==
    /\ endpoint = "rut"
    /\ pc = "done"
    /\ response = RowWithoutColumns
    /\ directCalls = 1
    /\ browserCalls = 1

\* ------------------------------------------------- C3: inspect=true failures

\* C3 as stated: with inspect=true and a valid identifier, a request whose
\* extraction fails answers the diagnostic payload, never an HTTP 400.
C3_InspectNeverAnswers400 ==
    (endpoint = "rut" /\ inspect /\ ~url.isNone /\ pc = "done")
        => ~IsExtractionEmpty(response)

\* ------------------------------------------------ C4: the browser is closed

C7_RawEscalatesLikeMain ==
    (endpoint = "raw" /\ pc = "done" /\ direct.kind # "none")
        => (browserCalls = 1 <=> DirectBlocked(direct))

\* C7 as amended: the raw endpoint invokes the browser fetcher exactly when
\* the direct fetch raised a transport exception, returned 403, or returned an
\* empty body; whenever it does, the main endpoint would too.
C7_RawEscalatesOnBlockOrEmptyBody ==
    (endpoint = "raw" /\ pc = "done" /\ direct.kind # "none") =>
        /\ browserCalls = 1 <=>
              \/ direct.kind = "exception"
              \/ direct.status = 403
              \/ direct.body = <<>>
        /\ browserCalls = 1 => DirectBlocked(direct)

\* The raw endpoint answered a non-403 page without table markup as it came,
\* with no browser fetch.
C7_Witness ==
    /\ endpoint = "raw"
    /\ pc = "done"
    /\ direct = [kind |-> "response", status |-> 200, body |-> <<"a">>]
    /\ browserCalls = 0
    /\ response.kind = "raw"

\* ------------------------------------------------------- C8: no retry

\* C8: a request makes at most one direct fetch and at most one browser
\* fetch, the browser fetch only after the direct fetch has finished; a
\* request whose identifier fails normalization makes no fetch; once the
\* browser fetch has returned the next step answers the request without a
\* further fetch; and an answered request takes no further step.
C8_AtMostOneFetchPerTier ==
    /\ [](directCalls <= 1 /\ browserCalls <= 1)
    /\ [](browserCalls = 1 => (directCalls = 1 /\ direct.kind # "none"))
    /\ []((pc # "start" /\ format_rut_lenient(rut).isNone)
            => (pc = "done" /\ response = InvalidRut
                /\ directCalls = 0 /\ browserCalls = 0))
    /\ [](pc = "done" => response.kind \in {"payload", "diagnostic", "raw", "error"})
    /\ [][/\ pc # "done"
          /\ pc = "fetched" =>
                (pc' = "done" /\ directCalls' = directCalls
                 /\ browserCalls' = browserCalls)
          /\ (browserCalls = 1 /\ pc' = "done") =>
                (directCalls' = directCalls /\ browserCalls' = browserCalls)]_vars

\* The engine is not installed: one fetch of each tier, and the request failed.
C8_Witness ==
    /\ pc = "done"
    /\ exc = "RuntimeError"
    /\ directCalls = 1
    /\ browserCalls = 1
    /\ response.status = 500

\* ------------------------------------------------------- C9: map_values

CampoNames == <<"campo1", "campo2", "campo3", "campo4">>

\* C9: on a row of 5 or more values map_values returns exactly the keys
\* nombre, rut, genero, direccion, comuna bound to the first five values in
\* that order; on a shorter row exactly campo1..campoN, campo(i) bound to the
\* i-th value.
C9_MapValues ==
    mpc = "mapped" =>
        IF Len(row) >= 5
        THEN /\ DOMAIN record = {"nombre", "rut", "genero", "direccion", "comuna"}
             /\ record["nombre"] = row[1]
             /\ record["rut"] = row[2]
             /\ record["genero"] = row[3]
             /\ record["direccion"] = row[4]
             /\ record["comuna"] = row[5]
        ELSE /\ DOMAIN record = {CampoNames[i] : i \in 1..Len(row)}
             /\ \A i \in 1..Len(row) : record[CampoNames[i]] = row[i]

\* A row of six values was mapped onto the five names, the sixth dropped.
C9_Witness ==
    /\ mpc = "mapped"
    /\ row = <<<<"a">>, <<"b">>, <<"b">>, <<"a">>, <<"a">>, <<"b">>>>
    /\ Cardinality(DOMAIN record) = 5
    /\ record["comuna"] = <<"a">>

====
